---- MODULE Spec2Model ----
(***************************************************************************)
(* Model of the Monte Carlo engine of rust-monte-carlo:                    *)
(*   src/src/core_sim.rs  run_simulation, the five path generators and     *)
(*                        calculate_statistics                             *)
(*   src/src/config.rs    validate_config                                  *)
(*   src/src/main.rs      the request -> SimConfig conversion              *)
(*                                                                         *)
(* Numbers.  f64 values are modelled on an integer grid:                   *)
(*   - prices are integers (ticks of 0.01, so the 0.01 price floor is 1);  *)
(*   - a log return r stands for r/ExpScale, and exp is the monotone,      *)
(*     strictly positive map x |-> 1+x (x >= 0), 1/(1-x) (x < 0) rounded   *)
(*     down to the grid (ExpMul);                                          *)
(*   - theta, alpha and beta are given in tenths;                          *)
(*   - GARCH variances are in units of 2.5e-7, so the 1e-6 floor is 4;     *)
(*   - simple returns are in units of 1/RetScale;                          *)
(*   - u64 seed arithmetic wraps at WordMod instead of 2^64;               *)
(*   - StdRng is a linear congruential generator over 0..RngMod-1; every   *)
(*     draw is a function of the generator state and advances it.          *)
(* A NaN is modelled as the empty sequence and a finite float x as <<x>>   *)
(* where a field can be either (std_dev).                                  *)
(***************************************************************************)
EXTENDS Integers, Sequences, FiniteSets, TLC

(* run_simulation *)
VARIABLES params, hist_log_returns, pc, tasks, paths, results

(* build_portfolio_config: its arguments, its locals and its result *)
VARIABLES ticker_weights, total_capital, data_map, pf_pc, min_len, assets,
          aligned_log_returns, correlation_matrix, pf_result

(* estimate_paramaters: its argument and its result *)
VARIABLES est_log_returns, est_result

(* SimConfig: a configuration, validate_config's and to_model_params's     *)
(* results on it *)
VARIABLES sim_config, cfg_validated, cfg_converted

(* AppState (main.rs), the window's selected ticker, and the last call a   *)
(* callback made with the stored returns *)
VARIABLES all_data, tickers, ui_selected_ticker, selected_ticker,
          selected_ticker_last_price, selected_ticker_log_returns, last_call

simVars == <<params, hist_log_returns, pc, tasks, paths, results>>

pfVars == <<ticker_weights, total_capital, data_map, pf_pc, min_len, assets,
            aligned_log_returns, correlation_matrix, pf_result>>

estVars == <<est_log_returns, est_result>>

cfgVars == <<sim_config, cfg_validated, cfg_converted>>

appVars == <<all_data, tickers, ui_selected_ticker, selected_ticker,
             selected_ticker_last_price, selected_ticker_log_returns, last_call>>

vars == <<simVars, pfVars, estVars, cfgVars, appVars>>

(* The parts of the state a specification does not exercise. *)
PortfolioUnused ==
    /\ ticker_weights = <<>> /\ total_capital = 0 /\ data_map = <<>>
    /\ pf_pc = "unused" /\ min_len = 0 /\ assets = <<>>
    /\ aligned_log_returns = <<>> /\ correlation_matrix = <<>>
    /\ pf_result = [kind |-> "None", config |-> <<>>]

EstimateUnused ==
    /\ est_log_returns = <<>>
    /\ est_result = [kind |-> "None", value |-> <<>>]

ConfigUnused ==
    /\ sim_config = <<>>
    /\ cfg_validated = "None"
    /\ cfg_converted = [kind |-> "None", variant |-> <<>>]

AppUnused ==
    /\ all_data = <<>>
    /\ tickers = {}
    /\ ui_selected_ticker = ""
    /\ selected_ticker = ""
    /\ selected_ticker_last_price = 0
    /\ selected_ticker_log_returns = <<>>
    /\ last_call = [kind |-> "None", model_type |-> "", log_returns |-> <<>>]

-----------------------------------------------------------------------------
(* Bounds of the model *)

MaxHorizon == 2
MaxPaths == 3
MaxCalls == 2
WordMod == 16
RngMod == 16
ExpScale == 16
RetScale == 100

(* Program constants *)

PriceFloor == 1
VarFloor == 4

-----------------------------------------------------------------------------
(* Arithmetic helpers *)

Max(a, b) == IF a >= b THEN a ELSE b

Min(a, b) == IF a <= b THEN a ELSE b

RECURSIVE ISqrt(_)
ISqrt(n) ==
    IF n < 2 THEN n
    ELSE LET s == 2 * ISqrt(n \div 4)
         IN  IF (s + 1) * (s + 1) > n THEN s ELSE s + 1

ExpMul(price, r) ==
    IF r >= 0 THEN (price * (ExpScale + r)) \div ExpScale
    ELSE (price * ExpScale) \div (ExpScale - r)

RECURSIVE SumSeq(_)
SumSeq(s) == IF s = <<>> THEN 0 ELSE Head(s) + SumSeq(Tail(s))

RECURSIVE Insert(_, _)
Insert(x, s) ==
    IF s = <<>> THEN <<x>>
    ELSE IF x <= Head(s) THEN <<x>> \o s
    ELSE <<Head(s)>> \o Insert(x, Tail(s))

RECURSIVE SortAsc(_)
SortAsc(s) == IF s = <<>> THEN <<>> ELSE Insert(Head(s), SortAsc(Tail(s)))

-----------------------------------------------------------------------------
(* Random stream: StdRng::seed_from_u64, Normal::sample, random_range,     *)
(* Poisson::sample                                                         *)

SeedFromU64(seed) == (7 * seed + 3) % RngMod

NextRng(s) == (5 * s + 3) % RngMod

StdNormal(s) == ((s \div 2) % 3) - 1

RandomRange(s, len) == s % len

PoissonSample(rate, s) == s % (rate + 1)

-----------------------------------------------------------------------------
(* Requests: the SimParams record handed to run_simulation and the         *)
(* historical log returns.  Fields a model does not read keep a default.   *)

Models == {"GBM", "Bootstrap", "MeanReversion", "JumpDiffusion", "GARCH"}

Common ==
    [initial_price : {100}, horizon : 0..MaxHorizon, num_paths : 0..MaxPaths,
     use_antithetic : BOOLEAN, seed_dt : {<<0, 1>>, <<WordMod - 1, 4>>}]

ModelFields ==
         [model_type : {"GBM"}, mu : {1}, sigma : {0, 2},
          theta : {0}, mu_long_term : {0}, lambda : {0}, mu_j : {0},
          sigma_j : {0}, omega : {0}, alpha : {0}, beta : {0}]
    \cup [model_type : {"GBM"}, mu : {0}, sigma : {2},
          theta : {0}, mu_long_term : {0}, lambda : {0}, mu_j : {0},
          sigma_j : {0}, omega : {0}, alpha : {0}, beta : {0}]
    \cup [model_type : {"Bootstrap", "Heston"}, mu : {0}, sigma : {0},
          theta : {0}, mu_long_term : {0}, lambda : {0}, mu_j : {0},
          sigma_j : {0}, omega : {0}, alpha : {0}, beta : {0}]
    \cup [model_type : {"MeanReversion"}, mu : {0}, sigma : {0, 60},
          theta : {5}, mu_long_term : {50}, lambda : {0}, mu_j : {0},
          sigma_j : {0}, omega : {0}, alpha : {0}, beta : {0}]
    \cup [model_type : {"JumpDiffusion"}, mu : {0}, sigma : {1},
          theta : {0}, mu_long_term : {0}, lambda : {0, 1}, mu_j : {-1},
          sigma_j : {1}, omega : {0}, alpha : {0}, beta : {0}]
    \cup [model_type : {"GARCH"}, mu : {0}, sigma : {0},
          theta : {0}, mu_long_term : {0}, lambda : {0}, mu_j : {0},
          sigma_j : {0}, omega : {1}, alpha : {0}, beta : {5}]
    \cup [model_type : {"GARCH"}, mu : {0}, sigma : {0},
          theta : {0}, mu_long_term : {0}, lambda : {0}, mu_j : {0},
          sigma_j : {0}, omega : {8}, alpha : {3, 5}, beta : {5}]

Merge(c, m) ==
    [initial_price |-> c.initial_price, horizon |-> c.horizon,
     num_paths |-> c.num_paths, seed |-> c.seed_dt[1],
     use_antithetic |-> c.use_antithetic, dt |-> c.seed_dt[2],
     model_type |-> m.model_type, mu |-> m.mu, sigma |-> m.sigma,
     theta |-> m.theta, mu_long_term |-> m.mu_long_term,
     lambda |-> m.lambda, mu_j |-> m.mu_j, sigma_j |-> m.sigma_j,
     omega |-> m.omega, alpha |-> m.alpha, beta |-> m.beta]

Requests == {Merge(c, m) : c \in Common, m \in ModelFields}

Histories == {<<>>, <<-2, 3>>}

-----------------------------------------------------------------------------
(* The per-path task of run_simulation (the closure of lines 67-96) and    *)
(* the generators it dispatches to.  A task record holds the closure's     *)
(* locals: its seed and rng, the antithetic flag, and the generator's      *)
(* path, current_price, loop counter k, variance and prev_return.          *)

IdleTask ==
    [st |-> "idle", seed |-> 0, rng |-> 0, anti |-> FALSE, path |-> <<>>,
     current_price |-> 0, k |-> 0, variance |-> 0, prev_return |-> 0]

(* Mutant: the seed also depends on how many calls came before (a         *)
(* generator state that outlives the call).                                *)
PathSeedPerCall(seed, i) == (seed + i + Len(results)) % WordMod

PathSeed(seed, i) == (seed + i) % WordMod

IsAntithetic(p, i) == p.use_antithetic /\ (i % 2 = 1)

GbmDrift(mu, sigma, dt) == ((2 * mu - sigma * sigma) * dt) \div 2

Diffusion(sigma, dt) == sigma * ISqrt(dt)

Shock(t) == IF t.anti THEN -StdNormal(t.rng) ELSE StdNormal(t.rng)

PushPrice(t, next_price, rng) ==
    [t EXCEPT !.path = Append(@, next_price), !.current_price = next_price,
              !.k = @ + 1, !.rng = rng]

(* Mutant: the antithetic path negates the whole log return, drift        *)
(* included, instead of the standard-normal draw.                          *)
generate_gbm_step_negated_return(p, t) ==
    LET z == StdNormal(t.rng)
        r == GbmDrift(p.mu, p.sigma, p.dt) + Diffusion(p.sigma, p.dt) * z
        next_price == ExpMul(t.current_price, IF t.anti THEN -r ELSE r)
    IN  PushPrice(t, next_price, NextRng(t.rng))

generate_gbm_step(p, t) ==
    LET z == Shock(t)
        next_price == ExpMul(t.current_price,
                             GbmDrift(p.mu, p.sigma, p.dt) + Diffusion(p.sigma, p.dt) * z)
    IN  PushPrice(t, next_price, NextRng(t.rng))

(* Mutant: the sampled log return is added to the price instead of being   *)
(* exponentiated and multiplied.                                           *)
generate_bootstrap_step_additive(p, hist, t) ==
    LET idx == RandomRange(t.rng, Len(hist))
        log_return == hist[idx + 1]
    IN  PushPrice(t, t.current_price + log_return, NextRng(t.rng))

generate_bootstrap_step(p, hist, t) ==
    LET idx == RandomRange(t.rng, Len(hist))
        log_return == hist[idx + 1]
    IN  PushPrice(t, ExpMul(t.current_price, log_return), NextRng(t.rng))

(* Mutant: the next price is not floored. *)
MeanReversionNextUnfloored(p, current_price, z) ==
    LET drift == (p.theta * (p.mu_long_term - current_price) * p.dt) \div 10
        shock == Diffusion(p.sigma, p.dt) * z
    IN  current_price + drift + shock

MeanReversionNext(p, current_price, z) ==
    LET drift == (p.theta * (p.mu_long_term - current_price) * p.dt) \div 10
        shock == Diffusion(p.sigma, p.dt) * z
    IN  Max(current_price + drift + shock, PriceFloor)

generate_mean_reversion_step(p, t) ==
    PushPrice(t, MeanReversionNext(p, t.current_price, Shock(t)), NextRng(t.rng))

RECURSIVE JumpEffect(_, _, _)
JumpEffect(p, num_jumps, rng) ==
    IF num_jumps = 0 THEN <<0, rng>>
    ELSE LET jump_size == p.mu_j + p.sigma_j * StdNormal(rng)
             rest == JumpEffect(p, num_jumps - 1, NextRng(rng))
         IN  <<jump_size + rest[1], rest[2]>>

generate_jump_diffusion_step(p, t) ==
    LET z == Shock(t)
        gbm_return == GbmDrift(p.mu, p.sigma, p.dt) + Diffusion(p.sigma, p.dt) * z
        rng1 == NextRng(t.rng)
        num_jumps == PoissonSample(p.lambda * p.dt, rng1)
        jumps == JumpEffect(p, num_jumps, NextRng(rng1))
        total_return == gbm_return + jumps[1]
    IN  PushPrice(t, ExpMul(t.current_price, total_return), jumps[2])

GarchInitialVariance(omega, alpha, beta) ==
    IF alpha + beta < 10 THEN (omega * 10) \div (10 - alpha - beta)
    ELSE omega * 10

GarchNextVariance(p, prev_return, variance) ==
    Max(p.omega + (p.alpha * prev_return * prev_return + p.beta * variance) \div 10,
        VarFloor)

generate_garch_step(p, t) ==
    LET epsilon == Shock(t)
        volatility == ISqrt(t.variance)
        return_t == volatility * epsilon * ISqrt(p.dt)
        next_price == ExpMul(t.current_price, return_t)
        pushed == PushPrice(t, next_price, NextRng(t.rng))
    IN  [pushed EXCEPT !.variance = GarchNextVariance(p, t.prev_return, t.variance),
                       !.prev_return = return_t]

(* The state of task i when its generator reaches its loop (or returns     *)
(* early, or panics on a distribution constructor's unwrap).               *)
TaskBegin(p, hist, i) ==
    LET seed == PathSeed(p.seed, i)
        base == [IdleTask EXCEPT !.st = "running", !.seed = seed,
                                 !.rng = SeedFromU64(seed),
                                 !.anti = IsAntithetic(p, i)]
        loop == [base EXCEPT !.path = <<p.initial_price>>,
                             !.current_price = p.initial_price]
    IN  CASE p.model_type = "GBM" -> loop
          [] p.model_type = "Bootstrap" ->
                IF hist = <<>>
                THEN [base EXCEPT !.path = [n \in 1..(p.horizon + 1) |-> p.initial_price],
                                  !.k = p.horizon, !.anti = FALSE]
                ELSE [loop EXCEPT !.anti = FALSE]
          [] p.model_type = "MeanReversion" -> loop
          [] p.model_type = "JumpDiffusion" ->
                IF p.lambda * p.dt > 0 THEN loop
                ELSE [loop EXCEPT !.st = "panicked"]
          [] p.model_type = "GARCH" ->
                [loop EXCEPT !.variance =
                                 GarchInitialVariance(p.omega, p.alpha, p.beta)]
          [] OTHER -> [base EXCEPT !.k = p.horizon]

(* One iteration of the generator's loop. *)
TaskIterate(p, hist, t) ==
    CASE p.model_type = "GBM" -> generate_gbm_step(p, t)
      [] p.model_type = "Bootstrap" -> generate_bootstrap_step(p, hist, t)
      [] p.model_type = "MeanReversion" -> generate_mean_reversion_step(p, t)
      [] p.model_type = "JumpDiffusion" -> generate_jump_diffusion_step(p, t)
      [] p.model_type = "GARCH" -> generate_garch_step(p, t)
      [] OTHER -> t

(* Mutant: the loop runs one iteration short. *)
LoopDoneOneShort(p, t) == t.k + 1 >= p.horizon

LoopDone(p, t) == t.k >= p.horizon

-----------------------------------------------------------------------------
(* calculate_statistics and the statrs operations it calls *)

Mean(data) == SumSeq(data) \div Len(data)

(* Sample standard deviation (n-1 denominator); NaN below two entries. *)
StdDev(data) ==
    LET n == Len(data)
        sq == SumSeq([k \in 1..n |-> data[k] * data[k]])
        sm == SumSeq(data)
    IN  IF n < 2 THEN <<>>
        ELSE <<ISqrt((n * sq - sm * sm) \div (n * (n - 1)))>>

Median(data) ==
    LET n == Len(data)
        sorted == SortAsc(data)
    IN  IF n % 2 = 1 THEN sorted[(n \div 2) + 1]
        ELSE (sorted[n \div 2] + sorted[(n \div 2) + 1]) \div 2

(* Data::percentile(pct) = quantile(pct/100): h = (n + 1/3) tau + 1/3,     *)
(* linear interpolation between the order statistics around h.  h is kept  *)
(* as the exact numerator h300 = 300 h.                                    *)
Percentile(data, pct) ==
    LET n == Len(data)
        sorted == SortAsc(data)
        h300 == (3 * n + 1) * pct + 100
        hf == h300 \div 300
        frac == h300 % 300
    IN  IF hf <= 0 \/ pct = 0 THEN sorted[1]
        ELSE IF hf >= n \/ pct = 100 THEN sorted[n]
        ELSE sorted[hf] + (frac * (sorted[hf + 1] - sorted[hf])) \div 300

SimpleReturns(terminal_prices, init_price) ==
    [k \in 1..Len(terminal_prices) |->
        ((terminal_prices[k] - init_price) * RetScale) \div init_price]

(* Mutant: the percentile of the returns is reported without negation. *)
Var95NotNegated(terminal_prices, init_price) ==
    Percentile(SimpleReturns(terminal_prices, init_price), 5)

Var95(terminal_prices, init_price) ==
    -Percentile(SimpleReturns(terminal_prices, init_price), 5)

(* Mutant: no emptiness check; every figure falls back to 0. *)
calculate_statistics_unchecked(terminal_prices, model, n_paths, horizon, init_price) ==
    LET e == terminal_prices = <<>>
    IN  [ok |-> TRUE,
         stats |-> <<[model |-> model, paths |-> n_paths, horizon |-> horizon,
                      mean |-> IF e THEN 0 ELSE Mean(terminal_prices),
                      std_dev |-> IF e THEN <<>> ELSE StdDev(terminal_prices),
                      median |-> IF e THEN 0 ELSE Median(terminal_prices),
                      p5 |-> IF e THEN 0 ELSE Percentile(terminal_prices, 5),
                      p25 |-> IF e THEN 0 ELSE Percentile(terminal_prices, 25),
                      p75 |-> IF e THEN 0 ELSE Percentile(terminal_prices, 75),
                      p95 |-> IF e THEN 0 ELSE Percentile(terminal_prices, 95),
                      var95 |-> IF e THEN 0
                                ELSE Var95(terminal_prices, init_price)]>>]

calculate_statistics(terminal_prices, model, n_paths, horizon, init_price) ==
    IF terminal_prices = <<>> THEN [ok |-> FALSE, stats |-> <<>>]
    ELSE [ok |-> TRUE,
          stats |-> <<[model |-> model, paths |-> n_paths, horizon |-> horizon,
                       mean |-> Mean(terminal_prices),
                       std_dev |-> StdDev(terminal_prices),
                       median |-> Median(terminal_prices),
                       p5 |-> Percentile(terminal_prices, 5),
                       p25 |-> Percentile(terminal_prices, 25),
                       p75 |-> Percentile(terminal_prices, 75),
                       p95 |-> Percentile(terminal_prices, 95),
                       var95 |-> Var95(terminal_prices, init_price)]>>]

-----------------------------------------------------------------------------
(* run_simulation *)

ModelName(model_type) ==
    IF model_type \in {"GBM", "Bootstrap"} THEN model_type ELSE ""

TaskIds == 0..(params.num_paths - 1)

(* Mutant: paths are stored in the order in which the tasks complete. *)
SlotByCompletion(i) ==
    Cardinality({j \in TaskIds : tasks[j].st = "done"}) + 1

(* The slot of the collected Vec that receives the path of index i. *)
SlotFor(i) == i + 1

TerminalPrices(ensemble) ==
    [k \in 1..Len(ensemble) |-> ensemble[k][Len(ensemble[k])]]

(* Lines 98-114: terminal prices (last().unwrap() panics on an empty       *)
(* path), statistics (Err on an empty ensemble), then the two charts.      *)
RunSimulationTail(p, ensemble, anyPanicked) ==
    IF anyPanicked \/ \E k \in 1..Len(ensemble) : ensemble[k] = <<>>
    THEN [kind |-> "Panic", stats |-> <<>>, charts |-> FALSE, ensemble |-> <<>>]
    ELSE LET r == calculate_statistics(TerminalPrices(ensemble),
                                       ModelName(p.model_type), p.num_paths,
                                       p.horizon, p.initial_price)
         IN  IF r.ok
             THEN [kind |-> "Ok", stats |-> r.stats, charts |-> TRUE,
                   ensemble |-> ensemble]
             ELSE [kind |-> "Err", stats |-> <<>>, charts |-> FALSE,
                   ensemble |-> <<>>]

-----------------------------------------------------------------------------
(* State machine *)

Init ==
    /\ params \in Requests
    /\ hist_log_returns \in
           (IF params.model_type = "Bootstrap" THEN Histories ELSE {<<>>})
    /\ pc = "ready"
    /\ tasks = [i \in TaskIds |-> IdleTask]
    /\ paths = [k \in 1..params.num_paths |-> <<>>]
    /\ results = <<>>
    /\ PortfolioUnused
    /\ EstimateUnused
    /\ ConfigUnused
    /\ AppUnused

(* A caller invokes run_simulation: the parallel iterator over             *)
(* 0..num_paths is set up and nothing has run yet.                         *)
CallRunSimulation ==
    /\ pc = "ready"
    /\ Len(results) < MaxCalls
    /\ pc' = "generating"
    /\ tasks' = [i \in TaskIds |-> IdleTask]
    /\ paths' = [k \in 1..params.num_paths |-> <<>>]
    /\ UNCHANGED <<params, hist_log_returns, results, pfVars, estVars,
                   cfgVars, appVars>>

(* A worker picks up index i: seeds its rng and enters the generator. *)
TaskStart(i) ==
    /\ pc = "generating"
    /\ tasks[i].st = "idle"
    /\ tasks' = [tasks EXCEPT ![i] = TaskBegin(params, hist_log_returns, i)]
    /\ UNCHANGED <<params, hist_log_returns, pc, paths, results, pfVars, estVars,
                   cfgVars, appVars>>

(* Task i runs one iteration of its generator's loop. *)
TaskStep(i) ==
    /\ pc = "generating"
    /\ tasks[i].st = "running"
    /\ ~LoopDone(params, tasks[i])
    /\ tasks' = [tasks EXCEPT ![i] = TaskIterate(params, hist_log_returns, @)]
    /\ UNCHANGED <<params, hist_log_returns, pc, paths, results, pfVars, estVars,
                   cfgVars, appVars>>

(* Task i returns its path, which collect() stores in its slot. *)
TaskReturn(i) ==
    /\ pc = "generating"
    /\ tasks[i].st = "running"
    /\ LoopDone(params, tasks[i])
    /\ tasks' = [tasks EXCEPT ![i].st = "done"]
    /\ paths' = [paths EXCEPT ![SlotFor(i)] = tasks[i].path]
    /\ UNCHANGED <<params, hist_log_returns, pc, results, pfVars, estVars,
                   cfgVars, appVars>>

(* All tasks are over: the rest of run_simulation runs on the caller's     *)
(* thread.  A panic (of a task, or of the unwrap) leaves the call without  *)
(* a result value and ends the process.                                    *)
Finish ==
    /\ pc = "generating"
    /\ \A i \in TaskIds : tasks[i].st \in {"done", "panicked"}
    /\ LET res == RunSimulationTail(params, paths,
                                    \E i \in TaskIds : tasks[i].st = "panicked")
       IN  /\ results' = Append(results, res)
           /\ pc' = IF res.kind = "Panic" THEN "aborted" ELSE "ready"
    /\ UNCHANGED <<params, hist_log_returns, tasks, paths, pfVars, estVars,
                   cfgVars, appVars>>

Next ==
    \/ CallRunSimulation
    \/ \E i \in TaskIds : TaskStart(i)
    \/ \E i \in TaskIds : TaskStep(i)
    \/ \E i \in TaskIds : TaskReturn(i)
    \/ Finish

Spec == Init /\ [][Next]_vars

-----------------------------------------------------------------------------
(* Request validation: validate_config over the SimConfig that             *)
(* corresponds to the request.  An Option is <<>> (None) or <<x>> (Some).  *)

RequestConfig(p) ==
    [initial_price |-> p.initial_price, horizon |-> p.horizon,
     num_paths |-> p.num_paths, seed |-> p.seed,
     use_antithetic |-> p.use_antithetic, dt |-> 1,
     model_type |-> p.model_type,
     gbm_params |->
         IF p.model_type \in {"GBM", "JumpDiffusion"}
         THEN <<[mu |-> p.mu, sigma |-> p.sigma]>> ELSE <<>>,
     mean_reversion_params |->
         IF p.model_type = "MeanReversion"
         THEN <<[theta |-> p.theta, mu_long_term |-> p.mu_long_term,
                 sigma |-> p.sigma]>> ELSE <<>>,
     jump_diffusion_params |->
         IF p.model_type = "JumpDiffusion"
         THEN <<[mu |-> p.mu, sigma |-> p.sigma, lambda |-> p.lambda,
                 mu_j |-> p.mu_j, sigma_j |-> p.sigma_j]>> ELSE <<>>,
     garch_params |->
         IF p.model_type = "GARCH"
         THEN <<[omega |-> p.omega, alpha |-> p.alpha, beta |-> p.beta]>>
         ELSE <<>>]

validate_config(config) ==
    IF config.initial_price <= 0 THEN "Initial price must be positive"
    ELSE IF config.horizon = 0 THEN "Horizon must be greater than 0"
    ELSE IF config.num_paths = 0 THEN "Number of paths must be greater than 0"
    ELSE IF config.dt <= 0 THEN "dt must be positive"
    ELSE CASE config.model_type = "GBM" ->
                IF config.gbm_params = <<>> THEN "GBM parameters missing"
                ELSE IF config.gbm_params[1].sigma < 0
                     THEN "GBM sigma must be non-negative"
                ELSE "Ok"
           [] config.model_type = "MeanReversion" ->
                IF config.mean_reversion_params = <<>>
                THEN "Mean Reversion parameters missing"
                ELSE IF config.mean_reversion_params[1].theta <= 0
                     THEN "Mean Reversion theta must be positive"
                ELSE IF config.mean_reversion_params[1].sigma < 0
                     THEN "Mean Reversion sigma must be non-negative"
                ELSE "Ok"
           [] config.model_type = "JumpDiffusion" ->
                IF config.jump_diffusion_params = <<>>
                THEN "Jump Diffusion parameters missing"
                ELSE IF config.jump_diffusion_params[1].lambda < 0
                     THEN "Jump Diffusion lambda must be non-negative"
                ELSE IF config.jump_diffusion_params[1].sigma < 0
                     THEN "Jump Diffusion sigma must be non-negative"
                ELSE IF config.jump_diffusion_params[1].sigma_j < 0
                     THEN "Jump Diffusion sigma_j must be non-negative"
                ELSE "Ok"
           [] config.model_type = "GARCH" ->
                IF config.garch_params = <<>> THEN "GARCH parameters missing"
                ELSE IF config.garch_params[1].omega <= 0
                     THEN "GARCH omega must be positive"
                ELSE IF config.garch_params[1].alpha < 0
                     THEN "GARCH alpha must be non-negative"
                ELSE IF config.garch_params[1].beta < 0
                     THEN "GARCH beta must be non-negative"
                ELSE IF config.garch_params[1].alpha + config.garch_params[1].beta >= 10
                     THEN "GARCH stationarity condition failed"
                ELSE "Ok"
           [] config.model_type = "Bootstrap" -> "Ok"
           [] OTHER -> "Unknown model type"

-----------------------------------------------------------------------------
(* build_portfolio_config (porfolio.rs).  A ticker's records are the       *)
(* sequence of its close prices in time order; data_map is a function      *)
(* from the loaded tickers to their records.  Shares are in units of       *)
(* 1/ShareScale, correlations and the Cholesky factor in units of          *)
(* 1/CorrScale; ln is the inverse of the exp of ExpMul.                    *)

MaxTickers == 2
ShareScale == 100
CorrScale == 100

MinRecords == 30
UsizeMax == 2147483647

Tickers == {"AAA", "BBB", "CCC", "ZZZ"}

WeightPcts == {50, 100}

PatternPrice(pattern, k) ==
    CASE pattern = "zig" -> IF k % 2 = 1 THEN 100 ELSE 150
      [] pattern = "tri" -> IF k % 3 = 1 THEN 100 ELSE IF k % 3 = 2 THEN 150 ELSE 75
      [] OTHER -> 100

Series(len, pattern) == [k \in 1..len |-> PatternPrice(pattern, k)]

(* The loaded data: ZZZ is never loaded, BBB may be one record short. *)
DataMaps ==
    {[t \in {"AAA", "BBB", "CCC"} |->
         CASE t = "AAA" -> Series(la, "zig")
           [] t = "BBB" -> Series(lb, "tri")
           [] OTHER -> Series(MinRecords, "flat")] :
     la \in {MinRecords, MinRecords + 1},
     lb \in {MinRecords - 1, MinRecords + 1}}

RECURSIVE SeqsUpTo(_, _)
SeqsUpTo(S, n) ==
    IF n = 0 THEN {<<>>}
    ELSE LET shorter == SeqsUpTo(S, n - 1)
         IN  shorter \cup {Append(q, x) : q \in shorter, x \in S}

LnRatio(b, a) ==
    IF b >= a THEN ((b - a) * ExpScale) \div a
    ELSE 0 - (((a - b) * ExpScale) \div b)

LogReturnsOf(records) ==
    [k \in 1..(Len(records) - 1) |-> LnRatio(records[k + 1], records[k])]

(* Mutant: the threshold is one record too low. *)
HasEnoughOneShort(records) == Len(records) >= MinRecords - 1

HasEnough(records) == Len(records) >= MinRecords

(* Lines 29-45: the first loop over the requested tickers. *)
RECURSIVE CheckData(_, _, _, _)
CheckData(tw, dm, k, least) ==
    IF k > Len(tw)
    THEN IF least = UsizeMax THEN [ok |-> FALSE, min_len |-> least]
         ELSE [ok |-> TRUE, min_len |-> least]
    ELSE IF tw[k][1] \notin DOMAIN dm THEN [ok |-> FALSE, min_len |-> least]
    ELSE IF ~HasEnough(dm[tw[k][1]]) THEN [ok |-> FALSE, min_len |-> least]
    ELSE CheckData(tw, dm, k + 1, Min(least, Len(dm[tw[k][1]]) - 1))

(* Mutant: the series are aligned at their start. *)
AlignedReturnsHead(log_returns, len) == SubSeq(log_returns, 1, len)

AlignedReturns(log_returns, len) ==
    SubSeq(log_returns, Len(log_returns) - len + 1, Len(log_returns))

SampleVariance(xs, mean) ==
    SumSeq([k \in 1..Len(xs) |-> (xs[k] - mean) * (xs[k] - mean)])
        \div (Len(xs) - 1)

(* Mutant: sigma is the variance, the square root is forgotten. *)
AssetSigmaNoSqrt(variance) == variance

AssetSigma(variance) == ISqrt(variance)

(* Lines 48-75: one iteration of the second loop. *)
AssetOf(ticker, weight_pct, records, len, capital) ==
    LET aligned_returns == AlignedReturns(LogReturnsOf(records), len)
        mean == SumSeq(aligned_returns) \div Len(aligned_returns)
        variance == SampleVariance(aligned_returns, mean)
        last_price == records[Len(records)]
        alloc_capital == (capital * weight_pct) \div 100
    IN  [ticker |-> ticker,
         shares |-> (alloc_capital * ShareScale) \div last_price,
         mu |-> mean,
         sigma |-> AssetSigma(variance),
         last_price |-> last_price]

(* sqrt(a) * sqrt(b) is taken as sqrt(a b). *)
calculate_pair_correlation(x, y) ==
    LET n == Len(x)
        mean_x == SumSeq(x) \div n
        mean_y == SumSeq(y) \div n
        numerator == SumSeq([k \in 1..n |-> (x[k] - mean_x) * (y[k] - mean_y)])
        denom_x == SumSeq([k \in 1..n |-> (x[k] - mean_x) * (x[k] - mean_x)])
        denom_y == SumSeq([k \in 1..n |-> (y[k] - mean_y) * (y[k] - mean_y)])
    IN  IF denom_x = 0 \/ denom_y = 0 THEN 0
        ELSE (numerator * CorrScale) \div ISqrt(denom_x * denom_y)

(* Mutant: only the entries above the diagonal are written. *)
CorrelationMatrixUpperOnly(aligned) ==
    [i \in 1..Len(aligned) |-> [j \in 1..Len(aligned) |->
        IF i = j THEN CorrScale
        ELSE IF i < j THEN calculate_pair_correlation(aligned[i], aligned[j])
        ELSE 0]]

(* Lines 80-89: the identity, then both entries of every pair i < j. *)
CorrelationMatrix(aligned) ==
    [i \in 1..Len(aligned) |-> [j \in 1..Len(aligned) |->
        IF i = j THEN CorrScale
        ELSE calculate_pair_correlation(aligned[Min(i, j)], aligned[Max(i, j)])]]

(* DMatrix::cholesky, column by column: column j minus the contributions   *)
(* of the columns before it, then a pivot that must be a positive number,  *)
(* then the division of the column by the pivot's square root.             *)
RECURSIVE Dot(_, _, _, _)
Dot(m, r, j, k) ==
    IF k = 0 THEN 0
    ELSE (m[r][k] * m[j][k]) \div CorrScale + Dot(m, r, j, k - 1)

RECURSIVE CholeskyFrom(_, _)
CholeskyFrom(m, j) ==
    IF j > Len(m) THEN [ok |-> TRUE, l |-> m]
    ELSE LET diag == m[j][j] - Dot(m, j, j, j - 1)
             denom == ISqrt(diag * CorrScale)
         IN  IF diag <= 0 THEN [ok |-> FALSE, l |-> <<>>]
             ELSE CholeskyFrom(
                      [r \in 1..Len(m) |-> [c \in 1..Len(m) |->
                          IF c # j \/ r < j THEN m[r][c]
                          ELSE IF r = j THEN denom
                          ELSE ((m[r][j] - Dot(m, r, j, j - 1)) * CorrScale)
                                   \div denom]],
                      j + 1)

LowerTriangle(m) ==
    [r \in 1..Len(m) |-> [c \in 1..Len(m) |-> IF c > r THEN 0 ELSE m[r][c]]]

Cholesky(m) ==
    LET f == CholeskyFrom(m, 1)
    IN  IF f.ok THEN [ok |-> TRUE, l |-> LowerTriangle(f.l)] ELSE f

(* Mutant: a failed factorization falls back to the unfactorized matrix. *)
PortfolioResultLenient(asset_list, matrix, capital) ==
    LET chol == Cholesky(matrix)
    IN  [kind |-> "Ok",
         config |-> <<[assets |-> asset_list,
                       cholesky_l |-> IF chol.ok THEN chol.l ELSE matrix,
                       init_value |-> capital]>>]

(* Lines 91-96. *)
PortfolioResult(asset_list, matrix, capital) ==
    LET chol == Cholesky(matrix)
    IN  IF chol.ok
        THEN [kind |-> "Ok",
              config |-> <<[assets |-> asset_list, cholesky_l |-> chol.l,
                            init_value |-> capital]>>]
        ELSE [kind |-> "Err", config |-> <<>>]

SimUnused ==
    /\ params = [initial_price |-> 100, horizon |-> 0, num_paths |-> 0,
                 seed |-> 0, use_antithetic |-> FALSE, dt |-> 1,
                 model_type |-> "GBM", mu |-> 0, sigma |-> 0, theta |-> 0,
                 mu_long_term |-> 0, lambda |-> 0, mu_j |-> 0, sigma_j |-> 0,
                 omega |-> 0, alpha |-> 0, beta |-> 0]
    /\ hist_log_returns = <<>>
    /\ pc = "unused"
    /\ tasks = <<>>
    /\ paths = <<>>
    /\ results = <<>>

InitPortfolio ==
    /\ SimUnused
    /\ EstimateUnused
    /\ ConfigUnused
    /\ AppUnused
    /\ ticker_weights \in SeqsUpTo(Tickers \X WeightPcts, MaxTickers)
    /\ total_capital = 1000
    /\ data_map \in DataMaps
    /\ pf_pc = "start"
    /\ min_len = UsizeMax
    /\ assets = <<>>
    /\ aligned_log_returns = <<>>
    /\ correlation_matrix = <<>>
    /\ pf_result = [kind |-> "None", config |-> <<>>]

(* Lines 29-45. *)
PfCheckData ==
    /\ pf_pc = "start"
    /\ LET chk == CheckData(ticker_weights, data_map, 1, UsizeMax)
       IN  /\ min_len' = chk.min_len
           /\ pf_pc' = IF chk.ok THEN "build" ELSE "done"
           /\ pf_result' = IF chk.ok THEN pf_result
                           ELSE [kind |-> "Err", config |-> <<>>]
    /\ UNCHANGED <<ticker_weights, total_capital, data_map, assets,
                   aligned_log_returns, correlation_matrix, simVars, estVars,
                   cfgVars, appVars>>

(* Lines 47-78. *)
PfBuildAssets ==
    /\ pf_pc = "build"
    /\ assets' = [k \in 1..Len(ticker_weights) |->
                     AssetOf(ticker_weights[k][1], ticker_weights[k][2],
                             data_map[ticker_weights[k][1]], min_len,
                             total_capital)]
    /\ aligned_log_returns' =
           [k \in 1..Len(ticker_weights) |->
               AlignedReturns(LogReturnsOf(data_map[ticker_weights[k][1]]),
                              min_len)]
    /\ pf_pc' = "correlate"
    /\ UNCHANGED <<ticker_weights, total_capital, data_map, min_len,
                   correlation_matrix, pf_result, simVars, estVars,
                   cfgVars, appVars>>

(* Lines 80-89. *)
PfCorrelate ==
    /\ pf_pc = "correlate"
    /\ correlation_matrix' = CorrelationMatrix(aligned_log_returns)
    /\ pf_pc' = "factorize"
    /\ UNCHANGED <<ticker_weights, total_capital, data_map, min_len, assets,
                   aligned_log_returns, pf_result, simVars, estVars,
                   cfgVars, appVars>>

(* Lines 91-96. *)
PfFactorize ==
    /\ pf_pc = "factorize"
    /\ pf_result' = PortfolioResult(assets, correlation_matrix, total_capital)
    /\ pf_pc' = "done"
    /\ UNCHANGED <<ticker_weights, total_capital, data_map, min_len, assets,
                   aligned_log_returns, correlation_matrix, simVars, estVars,
                   cfgVars, appVars>>

NextPortfolio ==
    \/ PfCheckData
    \/ PfBuildAssets
    \/ PfCorrelate
    \/ PfFactorize

SpecPortfolio == InitPortfolio /\ [][NextPortfolio]_vars

-----------------------------------------------------------------------------
(* Properties *)

(* The path of index i when its generator runs alone, start to end. *)
RECURSIVE RunToEnd(_, _, _)
RunToEnd(p, hist, t) ==
    IF t.st # "running" \/ t.k >= p.horizon THEN t
    ELSE RunToEnd(p, hist, TaskIterate(p, hist, t))

SequentialPath(p, hist, i) == RunToEnd(p, hist, TaskBegin(p, hist, i)).path

DoneTasks == {i \in TaskIds : tasks[i].st = "done"}

OkResults == {k \in 1..Len(results) : results[k].kind = "Ok"}

(* C1 - Reproducibility: every call of run_simulation with the same        *)
(* request and historical returns gives the same outcome, the same path    *)
(* ensemble and the same SimStats, whatever the order in which the         *)
(* per-path tasks of each call were scheduled.                             *)
C1_Reproducible ==
    \A a, b \in 1..Len(results) :
        /\ results[a].kind = results[b].kind
        /\ results[a].ensemble = results[b].ensemble
        /\ results[a].stats = results[b].stats

C1_Witness ==
    /\ Len(results) = 2
    /\ results[1].kind = "Ok" /\ results[2].kind = "Ok"
    /\ params.num_paths >= 2 /\ params.horizon >= 1
    /\ results[2].ensemble[1] # results[2].ensemble[2]
    /\ results[2].stats[1].std_dev # <<0>>

(* C2 - Ordering under parallelism: the collected ensemble always has      *)
(* num_paths entries, and the entry of a completed index i is the path     *)
(* its generator produces when run alone from the seed of i, for every     *)
(* interleaving and completion order of the tasks.                         *)
C2_OrderedEnsemble ==
    /\ Len(paths) = params.num_paths
    /\ \A i \in DoneTasks :
           paths[i + 1] = SequentialPath(params, hist_log_returns, i)
    /\ \A k \in OkResults :
           /\ Len(results[k].ensemble) = params.num_paths
           /\ \A i \in TaskIds :
                  results[k].ensemble[i + 1] =
                      SequentialPath(params, hist_log_returns, i)

C2_Witness ==
    /\ pc = "generating"
    /\ params.num_paths = 3 /\ params.horizon >= 1
    /\ tasks[2].st = "done" /\ tasks[1].st = "running" /\ tasks[0].st = "idle"
    /\ paths[3] = tasks[2].path
    /\ paths[3] # SequentialPath(params, hist_log_returns, 0)

(* C3 - Path shape: every path returned by one of the five generators      *)
(* (the Bootstrap fallback included) has horizon+1 elements and starts     *)
(* with initial_price.                                                     *)
C3_PathShape ==
    params.model_type \in Models =>
        \A i \in DoneTasks :
            /\ Len(paths[i + 1]) = params.horizon + 1
            /\ paths[i + 1][1] = params.initial_price

C3_Witness ==
    /\ params.model_type = "Bootstrap" /\ hist_log_returns = <<>>
    /\ params.horizon = 2
    /\ \E i \in DoneTasks : paths[i + 1] = <<100, 100, 100>>

(* C4 - Seed derivation: the rng of path index i is seeded with seed + i   *)
(* without antithetic variates and with seed + i/2 with them, so that the  *)
(* two paths of a pair share one stream.                                   *)
C4_SeedDerivation ==
    \A i \in TaskIds :
        tasks[i].st # "idle" =>
            tasks[i].seed = IF params.use_antithetic
                            THEN (params.seed + (i \div 2)) % WordMod
                            ELSE (params.seed + i) % WordMod

(* C5 - Antithetic mirroring: with antithetic variates and GBM with        *)
(* sigma = 0 the paths of indices 2k and 2k+1 are identical.               *)
C5_AntitheticMirror ==
    (params.use_antithetic /\ params.model_type = "GBM" /\ params.sigma = 0) =>
        /\ \A i \in DoneTasks :
               (i % 2 = 0 /\ i + 1 \in DoneTasks) => paths[i + 1] = paths[i + 2]
        /\ \A k \in OkResults : \A i \in TaskIds :
               (i % 2 = 0 /\ i + 1 \in TaskIds) =>
                   results[k].ensemble[i + 1] = results[k].ensemble[i + 2]

C5_Witness ==
    /\ params.use_antithetic /\ params.model_type = "GBM" /\ params.sigma = 0
    /\ params.mu = 1 /\ params.horizon >= 1 /\ params.num_paths >= 2
    /\ Len(results) >= 1 /\ results[1].kind = "Ok"
    /\ results[1].ensemble[1] = results[1].ensemble[2]
    /\ results[1].ensemble[2][2] # params.initial_price

(* C6 - GARCH floor: the conditional variance with which a step's return   *)
(* is drawn, the initial variance of the first step included, is never     *)
(* below the floor.                                                        *)
C6_GarchFloor ==
    params.model_type = "GARCH" =>
        \A i \in TaskIds :
            (tasks[i].st = "running" /\ tasks[i].k < params.horizon) =>
                tasks[i].variance >= VarFloor

(* C7 - VaR consistency: var95 is the negative of the 5th percentile of    *)
(* the simple returns of the ensemble's terminal prices, the same          *)
(* terminal prices that give mean, median and the price percentiles.       *)
C7_VarConsistency ==
    \A k \in OkResults :
        LET tp == TerminalPrices(results[k].ensemble)
            rets == [j \in 1..Len(tp) |->
                        ((tp[j] - params.initial_price) * RetScale)
                            \div params.initial_price]
            st == results[k].stats[1]
        IN  /\ st.var95 = 0 - Percentile(rets, 5)
            /\ st.mean = Mean(tp)
            /\ st.median = Median(tp)
            /\ st.p5 = Percentile(tp, 5)
            /\ st.p95 = Percentile(tp, 95)

C7_Witness ==
    \E k \in OkResults :
        /\ params.num_paths = 3
        /\ results[k].stats[1].var95 > 0
        /\ results[k].stats[1].p5 < results[k].stats[1].p95
        /\ results[k].stats[1].p5 < params.initial_price

(* C8 - Empty ensemble: with num_paths = 0 run_simulation returns an       *)
(* error, and neither a SimStats record nor a chart.                       *)
C8_EmptyEnsemble ==
    params.num_paths = 0 =>
        \A k \in 1..Len(results) :
            /\ results[k].kind = "Err"
            /\ results[k].stats = <<>>
            /\ ~results[k].charts

C8_Witness ==
    /\ params.num_paths = 0
    /\ Len(results) = 2
    /\ results[1].kind = "Err" /\ results[2].kind = "Err"

(* C9 - Unknown model: with a model label outside the five and             *)
(* num_paths >= 1 every path is empty and run_simulation returns an        *)
(* error result: it neither aborts nor returns statistics.                 *)
C9_UnknownModelError ==
    (params.model_type \notin Models /\ params.num_paths >= 1) =>
        /\ \A i \in DoneTasks : paths[i + 1] = <<>>
        /\ pc # "aborted"
        /\ \A k \in 1..Len(results) :
               results[k].kind = "Err" /\ results[k].stats = <<>>

(* C10 - Invalid requests are rejected before simulation: for a request    *)
(* that validate_config refuses, run_simulation starts no path generation  *)
(* and returns an error.                                                   *)
C10_InvalidRejected ==
    validate_config(RequestConfig(params)) # "Ok" =>
        /\ \A i \in TaskIds : tasks[i].st = "idle"
        /\ \A k \in 1..Len(results) : results[k].kind = "Err"

(* C15 - Bootstrap fallback: with an empty historical sequence the path    *)
(* is horizon+1 copies of initial_price and the rng is left as seeded;     *)
(* with a non-empty one every step multiplies the price by exp of an       *)
(* element of the sequence.                                                *)
C15_BootstrapFallback ==
    params.model_type = "Bootstrap" =>
        \A i \in DoneTasks :
            IF hist_log_returns = <<>>
            THEN /\ paths[i + 1] = [n \in 1..(params.horizon + 1) |-> params.initial_price]
                 /\ tasks[i].rng = SeedFromU64(tasks[i].seed)
            ELSE /\ Len(paths[i + 1]) = params.horizon + 1
                 /\ \A n \in 1..params.horizon :
                        \E idx \in 1..Len(hist_log_returns) :
                            paths[i + 1][n + 1] =
                                ExpMul(paths[i + 1][n], hist_log_returns[idx])

C15_Witness ==
    /\ params.model_type = "Bootstrap" /\ hist_log_returns # <<>>
    /\ params.horizon = 2
    /\ \E i \in DoneTasks :
           /\ paths[i + 1][2] = ExpMul(100, 3)
           /\ paths[i + 1][3] = ExpMul(paths[i + 1][2], -2)

(* C16 - Mean-reversion floor: every price a mean-reversion path holds     *)
(* after the initial one is at least the floor, hence positive.            *)
C16_MeanReversionFloor ==
    params.model_type = "MeanReversion" =>
        \A i \in TaskIds :
            \A n \in 2..Len(tasks[i].path) :
                tasks[i].path[n] >= PriceFloor /\ tasks[i].path[n] > 0

C16_Witness ==
    /\ params.model_type = "MeanReversion"
    /\ \E i \in DoneTasks :
           /\ Len(paths[i + 1]) = 3
           /\ paths[i + 1][2] = PriceFloor
           /\ paths[i + 1][3] > PriceFloor

(* C17 - GARCH recurrence: after a step, the variance kept for the next    *)
(* step is max(floor, omega + alpha r_t^2 + beta variance_t), with r_t     *)
(* the return that step drew and variance_t the variance it used.          *)
C17_GarchRecurrence ==
    [][params.model_type = "GARCH" =>
          \A i \in TaskIds :
              (tasks[i].st = "running" /\ tasks'[i].k = tasks[i].k + 1) =>
                  tasks'[i].variance =
                      Max(VarFloor,
                          params.omega
                          + (params.alpha * tasks'[i].prev_return * tasks'[i].prev_return
                             + params.beta * tasks[i].variance) \div 10)]_vars

(* Properties of build_portfolio_config *)

PortfolioDone == pf_pc = "done"

Requested(k) == ticker_weights[k][1]

Lacking(k) ==
    \/ Requested(k) \notin DOMAIN data_map
    \/ Len(data_map[Requested(k)]) < MinRecords

(* C11 - Insufficient-data rejection: once build_portfolio_config has      *)
(* returned, a request in which some ticker, at any position, is absent    *)
(* from the data map or has fewer than 30 records has produced an error    *)
(* and no config.                                                          *)
C11_InsufficientData ==
    (PortfolioDone /\ \E k \in 1..Len(ticker_weights) : Lacking(k)) =>
        pf_result.kind = "Err" /\ pf_result.config = <<>>

C11_Witness ==
    /\ PortfolioDone
    /\ Len(ticker_weights) = 2
    /\ ~Lacking(1)
    /\ Requested(2) \in DOMAIN data_map
    /\ Len(data_map[Requested(2)]) = MinRecords - 1
    /\ pf_result.kind = "Err"

(* The determinant of a square matrix, by expansion along its first row,   *)
(* in exact integer arithmetic.                                            *)
Without(m, c) ==
    [r \in 1..(Len(m) - 1) |-> [k \in 1..(Len(m) - 1) |->
        m[r + 1][IF k < c THEN k ELSE k + 1]]]

RECURSIVE Det(_)
RECURSIVE DetRow(_, _)
Det(m) == IF Len(m) = 0 THEN 1 ELSE DetRow(m, Len(m))

DetRow(m, c) ==
    IF c = 0 THEN 0
    ELSE (IF c % 2 = 1 THEN 1 ELSE 0 - 1) * m[1][c] * Det(Without(m, c))
         + DetRow(m, c - 1)

Leading(m, n) == [r \in 1..n |-> [c \in 1..n |-> m[r][c]]]

(* Sylvester's criterion: every leading principal minor is positive. *)
PositiveDefinite(m) == \A n \in 1..Len(m) : Det(Leading(m, n)) > 0

IsLowerFactor(l) ==
    /\ \A r \in 1..Len(l) : l[r][r] > 0
    /\ \A r \in 1..Len(l) : \A c \in 1..Len(l) : c > r => l[r][c] = 0

Factorized == PortfolioDone /\ Len(correlation_matrix) > 0

(* C12 - Degenerate correlation: once the correlation matrix has been      *)
(* built and build_portfolio_config has returned, the result is a config   *)
(* exactly when the matrix is positive definite; the config then holds a   *)
(* lower-triangular factor with a positive diagonal, and otherwise the     *)
(* result is an error that carries no config.                              *)
C12_DegenerateCorrelation ==
    Factorized =>
        IF PositiveDefinite(correlation_matrix)
        THEN /\ pf_result.kind = "Ok"
             /\ Len(pf_result.config[1].cholesky_l) = Len(correlation_matrix)
             /\ IsLowerFactor(pf_result.config[1].cholesky_l)
        ELSE pf_result.kind = "Err" /\ pf_result.config = <<>>

C12_Witness ==
    /\ Factorized
    /\ Len(ticker_weights) = 2
    /\ Requested(1) = Requested(2)
    /\ correlation_matrix[1][2] = CorrScale
    /\ pf_result.kind = "Err"
    /\ pf_result.config = <<>>

(* C13 - Correlation identity: a request of exactly one ticker with at     *)
(* least 30 records succeeds; the factor is the 1x1 matrix [1] and the     *)
(* asset's mu and sigma are the sample mean and the (n-1) standard         *)
(* deviation of all of the ticker's log returns.                           *)
C13_SingleAsset ==
    (PortfolioDone /\ Len(ticker_weights) = 1 /\ ~Lacking(1)) =>
        /\ pf_result.kind = "Ok"
        /\ pf_result.config[1].cholesky_l = <<<<CorrScale>>>>
        /\ Len(pf_result.config[1].assets) = 1
        /\ LET log_returns == LogReturnsOf(data_map[Requested(1)])
               asset == pf_result.config[1].assets[1]
           IN  /\ asset.ticker = Requested(1)
               /\ asset.mu = Mean(log_returns)
               /\ <<asset.sigma>> = StdDev(log_returns)

C13_Witness ==
    /\ PortfolioDone
    /\ Len(ticker_weights) = 1
    /\ ~Lacking(1)
    /\ Len(data_map[Requested(1)]) = MinRecords + 1
    /\ pf_result.kind = "Ok"
    /\ pf_result.config[1].cholesky_l = <<<<CorrScale>>>>
    /\ pf_result.config[1].assets[1].sigma > 0
    /\ pf_result.config[1].assets[1].mu < 0

AssetsBuilt == pf_pc \in {"correlate", "factorize", "done"} /\ Len(assets) > 0

(* The common window: the least number of log returns among the tickers. *)
CommonLength ==
    CHOOSE l \in {Len(data_map[Requested(k)]) - 1 : k \in 1..Len(ticker_weights)} :
        \A k \in 1..Len(ticker_weights) : l <= Len(data_map[Requested(k)]) - 1

(* C18 - Tail alignment: once the assets are built, every aligned series   *)
(* has the length L, the least of (record count - 1) over the requested    *)
(* tickers, and is the last L log returns of its asset in time order; mu   *)
(* and sigma of every asset, and every pairwise correlation once the       *)
(* matrix is built, are those of the aligned series.                       *)
C18_TailAlignment ==
    AssetsBuilt =>
        /\ Len(aligned_log_returns) = Len(ticker_weights)
        /\ Len(assets) = Len(ticker_weights)
        /\ \A k \in 1..Len(ticker_weights) :
               LET log_returns == LogReturnsOf(data_map[Requested(k)])
                   offset == Len(log_returns) - CommonLength
               IN  /\ Len(aligned_log_returns[k]) = CommonLength
                   /\ \A n \in 1..CommonLength :
                          aligned_log_returns[k][n] = log_returns[offset + n]
                   /\ assets[k].mu = Mean(aligned_log_returns[k])
                   /\ <<assets[k].sigma>> = StdDev(aligned_log_returns[k])
        /\ Len(correlation_matrix) > 0 =>
               \A i \in 1..Len(ticker_weights) : \A j \in 1..Len(ticker_weights) :
                   i < j => correlation_matrix[i][j] =
                                calculate_pair_correlation(aligned_log_returns[i],
                                                           aligned_log_returns[j])

C18_Witness ==
    /\ PortfolioDone
    /\ pf_result.kind = "Ok"
    /\ Len(ticker_weights) = 2
    /\ Len(data_map[Requested(1)]) = MinRecords + 1
    /\ Len(data_map[Requested(2)]) = MinRecords
    /\ Len(aligned_log_returns[1]) = MinRecords - 1
    /\ aligned_log_returns[1] #
           SubSeq(LogReturnsOf(data_map[Requested(1)]), 1, MinRecords - 1)

MatrixBuilt == Len(correlation_matrix) > 0

ZeroVariance(x) == \A n \in 1..Len(x) : x[n] = x[1]

(* C19 - Correlation matrix shape: the matrix built for N requested        *)
(* tickers is N x N, symmetric, has 1 on its diagonal, and holds 0 for     *)
(* every pair in which either aligned series has zero variance.            *)
C19_MatrixShape ==
    MatrixBuilt =>
        LET n == Len(ticker_weights)
        IN  /\ Len(correlation_matrix) = n
            /\ \A i \in 1..n :
                   /\ Len(correlation_matrix[i]) = n
                   /\ correlation_matrix[i][i] = CorrScale
            /\ \A i \in 1..n : \A j \in 1..n :
                   /\ correlation_matrix[i][j] = correlation_matrix[j][i]
                   /\ (i # j /\ (\/ ZeroVariance(aligned_log_returns[i])
                                 \/ ZeroVariance(aligned_log_returns[j]))) =>
                          correlation_matrix[i][j] = 0

C19_Witness ==
    /\ MatrixBuilt
    /\ Len(ticker_weights) = 2
    /\ ~ZeroVariance(aligned_log_returns[1])
    /\ ~ZeroVariance(aligned_log_returns[2])
    /\ correlation_matrix[2][1] \notin {0, CorrScale}
    /\ correlation_matrix[1][2] = correlation_matrix[2][1]

(* The value of the holdings at step 0, in units of 1/ShareScale. *)
HoldingsValue(asset_list) ==
    SumSeq([k \in 1..Len(asset_list) |->
               asset_list[k].shares * asset_list[k].last_price])

Abs(x) == IF x < 0 THEN 0 - x ELSE x

(* C20 - Portfolio reference value: the init_value of every returned       *)
(* config equals the sum over its assets of shares times last price, up    *)
(* to the rounding of the share counts (less than one last price each).    *)
C20_ReferenceValue ==
    (PortfolioDone /\ pf_result.kind = "Ok") =>
        LET config == pf_result.config[1]
        IN  Abs(HoldingsValue(config.assets) - config.init_value * ShareScale)
                <= SumSeq([k \in 1..Len(config.assets) |->
                              config.assets[k].last_price])

-----------------------------------------------------------------------------
(* estimate_paramaters (core_sim.rs).  The result is Err, or Ok with the   *)
(* pair (mu, sigma).                                                       *)

MaxReturns == 4

ReturnValues == {0 - 2, 0, 3}

(* Mutant: one return is taken to be enough. *)
estimate_paramaters_one_enough(log_returns) ==
    IF Len(log_returns) < 1 THEN [kind |-> "Err", value |-> <<>>]
    ELSE LET sigma == StdDev(log_returns)
         IN  [kind |-> "Ok",
              value |-> <<Mean(log_returns),
                          IF sigma = <<>> THEN 0 ELSE sigma[1]>>]

estimate_paramaters(log_returns) ==
    IF Len(log_returns) < 2 THEN [kind |-> "Err", value |-> <<>>]
    ELSE LET sigma == StdDev(log_returns)
         IN  [kind |-> "Ok",
              value |-> <<Mean(log_returns),
                          IF sigma = <<>> THEN 0 ELSE sigma[1]>>]

InitEstimate ==
    /\ SimUnused
    /\ PortfolioUnused
    /\ ConfigUnused
    /\ AppUnused
    /\ est_log_returns \in SeqsUpTo(ReturnValues, MaxReturns)
    /\ est_result = [kind |-> "None", value |-> <<>>]

Estimate ==
    /\ est_result.kind = "None"
    /\ est_result' = estimate_paramaters(est_log_returns)
    /\ UNCHANGED <<est_log_returns, simVars, pfVars, cfgVars, appVars>>

NextEstimate == Estimate

SpecEstimate == InitEstimate /\ [][NextEstimate]_vars

(* C14 - Parameter estimation: estimate_paramaters returns an error for    *)
(* every sequence of fewer than 2 returns, the empty one included, and     *)
(* Ok((mu, sigma)) for every sequence of at least 2 returns.               *)
C14_EstimateThreshold ==
    est_result.kind # "None" =>
        IF Len(est_log_returns) < 2
        THEN est_result.kind = "Err" /\ est_result.value = <<>>
        ELSE est_result.kind = "Ok" /\ Len(est_result.value) = 2

C14_Witness ==
    /\ Len(est_log_returns) = 1
    /\ est_result.kind = "Err"

-----------------------------------------------------------------------------
(* SimConfig (config.rs): validate_config and to_model_params on one       *)
(* configuration.  The Option fields are set independently of model_type,  *)
(* as a configuration read from a JSON file may have them.                 *)

CommonConfigs ==
    {[initial_price |-> c[1], horizon |-> c[2], num_paths |-> c[3], dt |-> c[4]] :
     c \in {<<100, 1, 1, 1>>, <<0, 1, 1, 1>>, <<100, 0, 1, 1>>,
            <<100, 1, 0, 1>>, <<100, 1, 1, 0>>}}

GbmOptions ==
    {<<>>} \cup {<<[mu |-> 1, sigma |-> sg]>> : sg \in {0 - 1, 2}}

MeanReversionOptions ==
    {<<>>} \cup {<<[theta |-> th, mu_long_term |-> 50, sigma |-> 60]>> :
                 th \in {0, 5}}

JumpDiffusionOptions ==
    {<<>>} \cup {<<[mu |-> 1, sigma |-> 1, lambda |-> la, mu_j |-> 0 - 1,
                    sigma_j |-> 1]>> : la \in {0 - 1, 0, 1}}

GarchOptions ==
    {<<>>} \cup {<<[omega |-> 8, alpha |-> al, beta |-> 5]>> : al \in {3, 5}}

SimConfigs ==
    {[initial_price |-> c.initial_price, horizon |-> c.horizon,
      num_paths |-> c.num_paths, seed |-> 0, use_antithetic |-> FALSE,
      dt |-> c.dt, model_type |-> m, gbm_params |-> g,
      mean_reversion_params |-> mr, jump_diffusion_params |-> jd,
      garch_params |-> ga] :
     c \in CommonConfigs, m \in Models \cup {"Heston"}, g \in GbmOptions,
     mr \in MeanReversionOptions, jd \in JumpDiffusionOptions,
     ga \in GarchOptions}

ConversionError == [kind |-> "Err", variant |-> <<>>]

(* Mutant: the Bootstrap arm asks for the GBM parameters. *)
to_model_params_bootstrap_needs_gbm(config) ==
    CASE config.model_type = "GBM" ->
            IF config.gbm_params = <<>> THEN ConversionError
            ELSE [kind |-> "Ok",
                  variant |-> <<[model |-> "GBM",
                                 mu |-> config.gbm_params[1].mu,
                                 sigma |-> config.gbm_params[1].sigma]>>]
      [] config.model_type = "Bootstrap" ->
            IF config.gbm_params = <<>> THEN ConversionError
            ELSE [kind |-> "Ok", variant |-> <<[model |-> "Bootstrap"]>>]
      [] config.model_type = "MeanReversion" ->
            IF config.mean_reversion_params = <<>> THEN ConversionError
            ELSE [kind |-> "Ok",
                  variant |-> <<[model |-> "MeanReversion",
                                 theta |-> config.mean_reversion_params[1].theta,
                                 mu_long_term |->
                                     config.mean_reversion_params[1].mu_long_term,
                                 sigma |-> config.mean_reversion_params[1].sigma]>>]
      [] config.model_type = "JumpDiffusion" ->
            IF config.jump_diffusion_params = <<>> THEN ConversionError
            ELSE [kind |-> "Ok",
                  variant |-> <<[model |-> "JumpDiffusion",
                                 mu |-> config.jump_diffusion_params[1].mu,
                                 sigma |-> config.jump_diffusion_params[1].sigma,
                                 lambda |-> config.jump_diffusion_params[1].lambda,
                                 mu_j |-> config.jump_diffusion_params[1].mu_j,
                                 sigma_j |-> config.jump_diffusion_params[1].sigma_j]>>]
      [] config.model_type = "GARCH" ->
            IF config.garch_params = <<>> THEN ConversionError
            ELSE [kind |-> "Ok",
                  variant |-> <<[model |-> "GARCH",
                                 omega |-> config.garch_params[1].omega,
                                 alpha |-> config.garch_params[1].alpha,
                                 beta |-> config.garch_params[1].beta]>>]
      [] OTHER -> ConversionError

to_model_params(config) ==
    CASE config.model_type = "GBM" ->
            IF config.gbm_params = <<>> THEN ConversionError
            ELSE [kind |-> "Ok",
                  variant |-> <<[model |-> "GBM",
                                 mu |-> config.gbm_params[1].mu,
                                 sigma |-> config.gbm_params[1].sigma]>>]
      [] config.model_type = "Bootstrap" ->
            [kind |-> "Ok", variant |-> <<[model |-> "Bootstrap"]>>]
      [] config.model_type = "MeanReversion" ->
            IF config.mean_reversion_params = <<>> THEN ConversionError
            ELSE [kind |-> "Ok",
                  variant |-> <<[model |-> "MeanReversion",
                                 theta |-> config.mean_reversion_params[1].theta,
                                 mu_long_term |->
                                     config.mean_reversion_params[1].mu_long_term,
                                 sigma |-> config.mean_reversion_params[1].sigma]>>]
      [] config.model_type = "JumpDiffusion" ->
            IF config.jump_diffusion_params = <<>> THEN ConversionError
            ELSE [kind |-> "Ok",
                  variant |-> <<[model |-> "JumpDiffusion",
                                 mu |-> config.jump_diffusion_params[1].mu,
                                 sigma |-> config.jump_diffusion_params[1].sigma,
                                 lambda |-> config.jump_diffusion_params[1].lambda,
                                 mu_j |-> config.jump_diffusion_params[1].mu_j,
                                 sigma_j |-> config.jump_diffusion_params[1].sigma_j]>>]
      [] config.model_type = "GARCH" ->
            IF config.garch_params = <<>> THEN ConversionError
            ELSE [kind |-> "Ok",
                  variant |-> <<[model |-> "GARCH",
                                 omega |-> config.garch_params[1].omega,
                                 alpha |-> config.garch_params[1].alpha,
                                 beta |-> config.garch_params[1].beta]>>]
      [] OTHER -> ConversionError

InitConfig ==
    /\ SimUnused
    /\ PortfolioUnused
    /\ EstimateUnused
    /\ AppUnused
    /\ sim_config \in SimConfigs
    /\ cfg_validated = "None"
    /\ cfg_converted = [kind |-> "None", variant |-> <<>>]

Validate ==
    /\ cfg_validated = "None"
    /\ cfg_validated' = validate_config(sim_config)
    /\ UNCHANGED <<sim_config, cfg_converted, simVars, pfVars, estVars, appVars>>

Convert ==
    /\ cfg_converted.kind = "None"
    /\ cfg_converted' = to_model_params(sim_config)
    /\ UNCHANGED <<sim_config, cfg_validated, simVars, pfVars, estVars, appVars>>

NextConfig ==
    \/ Validate
    \/ Convert

SpecConfig == InitConfig /\ [][NextConfig]_vars

(* The Option field of SimConfig that holds a model's parameters. *)
ParamsField(model_type) ==
    CASE model_type = "GBM" -> "gbm_params"
      [] model_type = "MeanReversion" -> "mean_reversion_params"
      [] model_type = "JumpDiffusion" -> "jump_diffusion_params"
      [] model_type = "GARCH" -> "garch_params"

BothApplied == cfg_validated # "None" /\ cfg_converted.kind # "None"

(* C21 - Validation implies conversion: on a configuration that            *)
(* validate_config accepts, to_model_params returns Ok with the variant    *)
(* named by model_type holding every parameter of that model with the      *)
(* configured value; on an unknown model_type both return an error.        *)
C21_ValidationImpliesConversion ==
    BothApplied =>
        /\ cfg_validated = "Ok" =>
               /\ cfg_converted.kind = "Ok"
               /\ cfg_converted.variant[1].model = sim_config.model_type
               /\ IF sim_config.model_type = "Bootstrap"
                  THEN DOMAIN cfg_converted.variant[1] = {"model"}
                  ELSE LET given == sim_config[ParamsField(sim_config.model_type)][1]
                       IN  /\ DOMAIN cfg_converted.variant[1] =
                                  DOMAIN given \cup {"model"}
                           /\ \A f \in DOMAIN given :
                                  cfg_converted.variant[1][f] = given[f]
        /\ sim_config.model_type \notin Models =>
               cfg_validated # "Ok" /\ cfg_converted = ConversionError

C21_Witness ==
    /\ BothApplied
    /\ cfg_validated = "Ok"
    /\ sim_config.model_type = "JumpDiffusion"
    /\ sim_config.gbm_params = <<>>
    /\ cfg_converted.kind = "Ok"
    /\ cfg_converted.variant[1].sigma_j = 1

-----------------------------------------------------------------------------
(* Further properties of run_simulation *)

(* C22 - Statistics labelling: for each of the five models, the            *)
(* statistics run_simulation returns name the request's model_type, count  *)
(* num_paths paths (the number of terminal prices aggregated) and carry    *)
(* the request's horizon.                                                  *)
C22_StatsLabelling ==
    params.model_type \in Models =>
        \A k \in OkResults :
            /\ results[k].stats[1].model = params.model_type
            /\ results[k].stats[1].paths = params.num_paths
            /\ results[k].stats[1].paths = Len(TerminalPrices(results[k].ensemble))
            /\ results[k].stats[1].horizon = params.horizon

(* C23 - Jump-diffusion with no jumps: for every jump-diffusion request    *)
(* that validate_config accepts, lambda = 0 included, no generator aborts  *)
(* and every returned path has horizon+1 elements.                         *)
C23_JumpDiffusionCompletes ==
    (/\ params.model_type = "JumpDiffusion"
     /\ validate_config(RequestConfig(params)) = "Ok") =>
        /\ pc # "aborted"
        /\ \A i \in TaskIds :
               /\ tasks[i].st # "panicked"
               /\ tasks[i].st = "done" => Len(paths[i + 1]) = params.horizon + 1

-----------------------------------------------------------------------------
(* The application state (main.rs) under its callbacks.  A record is its   *)
(* ticker, its date (a day number) and its close; a CSV file is the        *)
(* sequence of its rows.  A cancelled dialog or a file that fails to load  *)
(* leaves the state as it is.                                              *)

Row(ticker, date, close) == [ticker |-> ticker, date |-> date, close |-> close]

CsvFiles ==
    {<<Row("AAA", 2, 150), Row("BBB", 1, 200), Row("AAA", 1, 100),
       Row("BBB", 2, 100), Row("AAA", 3, 75)>>,
     <<Row("AAA", 1, 75), Row("AAA", 2, 150), Row("CCC", 1, 0),
       Row("CCC", 2, 100)>>,
     <<Row("BBB", 1, 100)>>}

SimulatedModels == {"GBM", "Bootstrap"}

(* sort_by_key is stable: a row goes after the rows of the same date. *)
InsertByDate(sorted, r) ==
    LET before == Cardinality({k \in 1..Len(sorted) : sorted[k].date <= r.date})
    IN  SubSeq(sorted, 1, before) \o <<r>> \o SubSeq(sorted, before + 1, Len(sorted))

RECURSIVE SortByDate(_)
SortByDate(records) ==
    IF records = <<>> THEN <<>>
    ELSE InsertByDate(SortByDate(SubSeq(records, 1, Len(records) - 1)),
                      records[Len(records)])

load_all_records(file) ==
    [records |-> SortByDate(file),
     ticker_list |-> {file[k].ticker : k \in 1..Len(file)}]

RECURSIVE FilterTicker(_, _)
FilterTicker(records, ticker) ==
    IF records = <<>> THEN <<>>
    ELSE LET rest == FilterTicker(SubSeq(records, 1, Len(records) - 1), ticker)
             last == records[Len(records)]
         IN  IF last.ticker = ticker THEN Append(rest, last) ELSE rest

RECURSIVE WindowReturns(_, _)
WindowReturns(ticker_data, n) ==
    IF n < 2 THEN <<>>
    ELSE LET s1 == ticker_data[n - 1].close
             s2 == ticker_data[n].close
             earlier == WindowReturns(ticker_data, n - 1)
         IN  IF s1 > 0 /\ s2 > 0 THEN Append(earlier, LnRatio(s2, s1))
             ELSE earlier

(* The log returns get_ticker_info returns (its text is not modelled). *)
get_ticker_info(records, ticker) ==
    LET ticker_data == FilterTicker(records, ticker)
    IN  IF ticker_data = <<>> THEN <<>>
        ELSE WindowReturns(ticker_data, Len(ticker_data))

InitApp ==
    /\ SimUnused
    /\ PortfolioUnused
    /\ EstimateUnused
    /\ ConfigUnused
    /\ AppUnused

(* on_load_csv_pressed, with a file that loads. *)
LoadCsv ==
    \E file \in CsvFiles :
        /\ all_data' = load_all_records(file).records
        /\ tickers' = load_all_records(file).ticker_list
        /\ UNCHANGED <<ui_selected_ticker, selected_ticker,
                       selected_ticker_last_price, selected_ticker_log_returns,
                       last_call, simVars, pfVars, estVars, cfgVars>>

(* The user picks a ticker of the list; on_select_ticker_changed runs. *)
SelectTicker ==
    \E t \in tickers :
        LET ticker_data == FilterTicker(all_data, t)
        IN  /\ ui_selected_ticker' = t
            /\ selected_ticker' = t
            /\ selected_ticker_last_price' =
                   IF ticker_data # <<>> THEN ticker_data[Len(ticker_data)].close
                   ELSE selected_ticker_last_price
            /\ selected_ticker_log_returns' = get_ticker_info(all_data, t)
            /\ UNCHANGED <<all_data, tickers, last_call,
                           simVars, pfVars, estVars, cfgVars>>

(* on_estimate_params_pressed *)
EstimateParams ==
    /\ selected_ticker_log_returns # <<>>
    /\ last_call' = [kind |-> "estimate_paramaters", model_type |-> "",
                     log_returns |-> selected_ticker_log_returns]
    /\ UNCHANGED <<all_data, tickers, ui_selected_ticker, selected_ticker,
                   selected_ticker_last_price, selected_ticker_log_returns,
                   simVars, pfVars, estVars, cfgVars>>

(* on_run_simulation_pressed, up to its call of run_simulation. *)
RunSimulation ==
    \E model_type \in SimulatedModels :
        /\ ~(selected_ticker_log_returns = <<>> /\ model_type = "Bootstrap")
        /\ last_call' = [kind |-> "run_simulation", model_type |-> model_type,
                         log_returns |-> selected_ticker_log_returns]
        /\ UNCHANGED <<all_data, tickers, ui_selected_ticker, selected_ticker,
                       selected_ticker_last_price, selected_ticker_log_returns,
                       simVars, pfVars, estVars, cfgVars>>

NextApp ==
    \/ LoadCsv
    \/ SelectTicker
    \/ EstimateParams
    \/ RunSimulation

SpecApp == InitApp /\ [][NextApp]_vars

(* C24 - Application state consistency: after any sequence of callbacks    *)
(* the stored log returns are those of the stored selected ticker in the   *)
(* data currently loaded, and so is the stored last price when the ticker  *)
(* has a record there.                                                     *)
C24_AppStateConsistent ==
    LET ticker_data == FilterTicker(all_data, selected_ticker)
    IN  /\ selected_ticker_log_returns = get_ticker_info(all_data, selected_ticker)
        /\ ticker_data # <<>> =>
               selected_ticker_last_price = ticker_data[Len(ticker_data)].close

====
